---- MODULE Spec2Model ----
(***************************************************************************)
(* Two-level parallel feature read of Notebooks/utils/sentinel_satellites: *)
(* get_features fans out one process_field task per field on an outer      *)
(* thread pool; each field task lists the acquisition dates, splits them   *)
(* into chunks and runs process_chunk tasks on an inner thread pool.       *)
(***************************************************************************)
EXTENDS Integers, Sequences, FiniteSets, TLC

\* ------------------------------------------------------------------ bounds
MaxT == 3          \* largest total worker budget (_max_workers) and fields_threads
MaxFields == 3     \* largest number of rows of the fields DataFrame
MaxDates == 3      \* largest number of acquisition dates reported over all fields
MaxTF == 4         \* largest budget in the single-field specification
MaxDF == 5         \* largest number of dates in the single-field specification
MaxN == 8          \* largest number of dates in the partition-only specification
MaxTP == 4         \* largest budget in the partition-only specification
MaxTO == 5         \* largest budget in the two-pool specification
MaxDP == 2         \* largest number of dates of one field in the two-pool specification
MaxDO == 6         \* largest number of dates over all fields, two-pool specification
MaxTQ == 2         \* largest budget in the fair-scheduling specification
MaxFQ == 3         \* largest number of fields in the fair-scheduling specification
MaxDQ == 1         \* largest number of dates over all fields, fair-scheduling specification
MaxTT == 3         \* largest budget of a lone field in the termination specification
MaxDT == 3         \* largest number of dates of a lone field, termination specification

\* Name (identifier column) of row r of a DataFrame of m rows: later rows sort
\* first and neighbouring rows share a name (<<2, 1, 1>> for three rows).
NameOfRow(r, m) == (m - r) \div 2 + 1

VARIABLES
    T,              \* concurrent.futures.ThreadPoolExecutor()._max_workers: the
                    \* machine's worker budget, modelled at small values
    fields_threads, \* argument of get_features
    fields_df,      \* argument of get_features: a Series (one field) or a DataFrame
    mainpc,         \* position of the get_features thread
    futures,        \* the field tasks submitted to the outer executor
    df_list,        \* rows gathered by get_features
    result          \* the returned (sorted) DataFrame

vars == <<T, fields_threads, fields_df, mainpc, futures, df_list, result>>

\* ------------------------------------------------------------- pure helpers
Min(a, b) == IF a < b THEN a ELSE b

\* len(fields_df): a Series holding one field has two entries (name, polygon);
\* a DataFrame has one entry per row.
LenFieldsDf(df) == IF df.kind = "series" THEN 2 ELSE Len(df.rows)

\* Python's range(0, n, step) for n >= 0 and step # 0, as the sequence of its values.
RangeStarts(n, step) ==
    IF step > 0
    THEN [j \in 1..((n + step - 1) \div step) |-> (j - 1) * step]
    ELSE <<>>

\* Python's s[i:j] for 0 <= i <= j (the end is clipped to len(s)).
Slice(s, i, j) == SubSeq(s, i + 1, Min(j, Len(s)))

\* Faulty variant: one thread is subtracted, whatever the field level was given.
NumChunksMinusOne(total, occupied) == total - 1
\* Faulty variant: the threads given to the field level are not subtracted.
NumChunksWholeBudget(total, occupied) == total
\* Faulty variant: a budget that leaves no inner worker is clamped to one.
NumChunksClamped(total, occupied) == IF total - occupied < 1 THEN 1 ELSE total - occupied
\* num_chunks = ThreadPoolExecutor._max_workers - already_occupied_threads
NumChunks(total, occupied) == total - occupied

\* Faulty variant: each slice runs one date into the next chunk.
DateChunksOverlap(date_range, chunk_size) ==
    LET starts == RangeStarts(Len(date_range), chunk_size)
    IN  [j \in 1..Len(starts) |-> Slice(date_range, starts[j], starts[j] + chunk_size + 1)]
\* date_chunks = [date_range[i:i+chunk_size] for i in range(0, len(date_range), chunk_size)]
DateChunks(date_range, chunk_size) ==
    LET starts == RangeStarts(Len(date_range), chunk_size)
    IN  [j \in 1..Len(starts) |-> Slice(date_range, starts[j], starts[j] + chunk_size)]

\* A process_chunk task as submitted to the inner executor.
NewChunkTask(chunk) ==
    [chunk |-> chunk, st |-> "queued", i |-> 0, acquisitions |-> <<>>,
     calls |-> [p \in 1..Len(chunk) |-> 0], failedAt |-> 0, taken |-> FALSE]

\* Faulty variant: a chunk size of 0 is raised to 1 instead of failing in range().
PartitionMinSizeOne(date_range, total, occupied) ==
    LET num_chunks == NumChunks(total, occupied)
        n == Len(date_range)
    IN  IF num_chunks = 0
        THEN [err |-> "ZeroDivisionError", pool |-> 0, chunks |-> <<>>]
        ELSE IF num_chunks < 0
        THEN [err |-> "ValueError", pool |-> 0, chunks |-> <<>>]
        ELSE LET chunk_size == IF n \div num_chunks = 0 THEN 1 ELSE n \div num_chunks
                 date_chunks == DateChunks(date_range, chunk_size)
             IN  [err |-> "", pool |-> num_chunks,
                  chunks |-> [j \in 1..Len(date_chunks) |-> NewChunkTask(date_chunks[j])]]

\* Lines 150-161 of parallelize_features_read: the partition, the inner executor and
\* the submission of the chunk tasks; err is the exception raised on the way, if any.
Partition(date_range, total, occupied) ==
    LET num_chunks == NumChunks(total, occupied)
        n == Len(date_range)
    IN  IF num_chunks = 0
        THEN [err |-> "ZeroDivisionError", pool |-> 0, chunks |-> <<>>]
        ELSE LET chunk_size == n \div num_chunks
             IN  IF chunk_size = 0
                 THEN [err |-> "ValueError", pool |-> 0, chunks |-> <<>>]
                 ELSE IF num_chunks <= 0
                 THEN [err |-> "ValueError", pool |-> 0, chunks |-> <<>>]
                 ELSE LET date_chunks == DateChunks(date_range, chunk_size)
                      IN  [err |-> "", pool |-> num_chunks,
                           chunks |-> [j \in 1..Len(date_chunks) |->
                                          NewChunkTask(date_chunks[j])]]

\* Faulty variant: the single-field branch counts one occupied thread (T - 1).
OccupiedThreadsOne(single) == IF single THEN 1 ELSE fields_threads
\* already_occupied_threads handed to process_field by each branch of get_features.
OccupiedThreads(single) == fields_threads

\* A process_field task as submitted to the outer executor; arg = 0 stands for the
\* whole fields_df object handed over by the len(fields_df) == 2 branch when
\* fields_df is a DataFrame, arg = r for row r.
NewFieldTask(arg, occupied) ==
    [arg |-> arg, occupied |-> occupied, st |-> "queued", err |-> "",
     listCalls |-> 0, listed |-> FALSE, date_range |-> <<>>, pool |-> 0,
     chunks |-> <<>>, acquisitions |-> <<>>, taken |-> FALSE]

\* The futures list built by lines 245-251 of get_features.
Submitted(df) ==
    IF LenFieldsDf(df) = 2
    THEN <<NewFieldTask(IF df.kind = "series" THEN 1 ELSE 0, OccupiedThreads(TRUE))>>
    ELSE [r \in 1..Len(df.rows) |-> NewFieldTask(r, OccupiedThreads(FALSE))]

\* The row process_chunk builds for one date: name, date and the band means and
\* indices, which are a function of the field's polygon (src) and the date.
Row(arg, date) == [name |-> fields_df.rows[arg].name, date |-> date, src |-> arg]

\* ------------------------------------------------------------------- state
FieldsDfs ==
    {[kind |-> "series", rows |-> <<[name |-> 1]>>]}
    \cup {[kind |-> "frame", rows |-> [r \in 1..m |-> [name |-> NameOfRow(r, m)]]] :
            m \in 0..MaxFields}

Init ==
    /\ T \in 1..MaxT
    /\ fields_threads \in 1..MaxT
    /\ fields_df \in FieldsDfs
    /\ mainpc = "start"
    /\ futures = <<>>
    /\ df_list = <<>>
    /\ result = <<>>

\* get_features, lines 244-251: the outer executor and the submission of field tasks.
Submit ==
    /\ mainpc = "start"
    /\ futures' = Submitted(fields_df)
    /\ mainpc' = "collecting"
    /\ UNCHANGED <<T, fields_threads, fields_df, df_list, result>>

\* Field tasks a worker of the outer executor is executing.
Executing(fut) == fut.st \in {"listing", "waiting", "aborting"}
Finished(fut) == fut.st \in {"done", "failed"}
RunningFields == {f \in 1..Len(futures) : Executing(futures[f])}

\* Chunk tasks a worker of a field's inner executor is executing.
ChunkFinished(ch) == ch.st \in {"done", "failed"}
RunningChunks(fut) == {c \in 1..Len(fut.chunks) : fut.chunks[c].st = "running"}

\* Faulty variant: the date listing is requested twice (dates, then distinct dates).
StartFieldListTwice(f) ==
    /\ f \in 1..Len(futures)
    /\ futures[f].st = "queued"
    /\ \A o \in 1..(f - 1) : futures[o].st # "queued"
    /\ Cardinality(RunningFields) < fields_threads
    /\ futures' = [futures EXCEPT ![f] =
            IF @.arg = 0
            THEN [@ EXCEPT !.st = "failed", !.err = "KeyError"]
            ELSE [@ EXCEPT !.st = "listing", !.listCalls = @ + 2]]
    /\ UNCHANGED <<T, fields_threads, fields_df, mainpc, df_list, result>>

\* Faulty variant: a queued field task is started whatever the number running.
StartFieldNoLimit(f) ==
    /\ f \in 1..Len(futures)
    /\ futures[f].st = "queued"
    /\ futures' = [futures EXCEPT ![f] =
            IF @.arg = 0
            THEN [@ EXCEPT !.st = "failed", !.err = "KeyError"]
            ELSE [@ EXCEPT !.st = "listing", !.listCalls = @ + 1]]
    /\ UNCHANGED <<T, fields_threads, fields_df, mainpc, df_list, result>>

\* A worker of the outer executor (max_workers = fields_threads) takes the oldest
\* queued field task off the work queue and runs process_field up to the date listing request
\* (lines 186-206); field[0] on a whole DataFrame (labelled columns, no column 0)
\* raises KeyError.
StartField(f) ==
    /\ f \in 1..Len(futures)
    /\ futures[f].st = "queued"
    /\ \A o \in 1..(f - 1) : futures[o].st # "queued"
    /\ Cardinality(RunningFields) < fields_threads
    /\ futures' = [futures EXCEPT ![f] =
            IF @.arg = 0
            THEN [@ EXCEPT !.st = "failed", !.err = "KeyError"]
            ELSE [@ EXCEPT !.st = "listing", !.listCalls = @ + 1]]
    /\ UNCHANGED <<T, fields_threads, fields_df, mainpc, df_list, result>>

\* The date listing (getInfo, line 206) fails: the field task ends with the error.
ListFail(f) ==
    /\ f \in 1..Len(futures)
    /\ futures[f].st = "listing"
    /\ futures' = [futures EXCEPT ![f] =
            [@ EXCEPT !.st = "failed", !.err = "UpstreamFailure"]]
    /\ UNCHANGED <<T, fields_threads, fields_df, mainpc, df_list, result>>

\* Number of dates the Image Source has reported so far, over all fields.
RECURSIVE SumLens(_)
SumLens(fs) == IF fs = <<>> THEN 0 ELSE Len(Head(fs).date_range) + SumLens(Tail(fs))
TotalListed == SumLens(futures)

\* The date listing returns n distinct sorted dates; parallelize_features_read then
\* partitions them, opens the inner executor and submits the chunk tasks
\* (lines 150-161).  cap bounds the dates reported over all fields.
ListReturn(f, n, cap) ==
    /\ f \in 1..Len(futures)
    /\ futures[f].st = "listing"
    /\ TotalListed + n <= cap
    /\ LET dates == [d \in 1..n |-> d]
           p == Partition(dates, T, futures[f].occupied)
       IN  futures' = [futures EXCEPT ![f] =
               IF p.err # ""
               THEN [@ EXCEPT !.st = "failed", !.err = p.err, !.listed = TRUE,
                              !.date_range = dates]
               ELSE [@ EXCEPT !.st = "waiting", !.listed = TRUE, !.date_range = dates,
                              !.pool = p.pool, !.chunks = p.chunks]]
    /\ UNCHANGED <<T, fields_threads, fields_df, mainpc, df_list, result>>

\* Faulty variant: the chunk tasks are submitted to the outer executor, whose
\* workers are also the ones running the field tasks.
StartChunkOnOuterPool(f, c) ==
    /\ f \in 1..Len(futures)
    /\ c \in 1..Len(futures[f].chunks)
    /\ futures[f].chunks[c].st = "queued"
    /\ \A o \in 1..(c - 1) : futures[f].chunks[o].st # "queued"
    /\ Cardinality(RunningFields)
         + Cardinality({p \in (1..Len(futures)) \X (1..MaxDF) :
                          /\ p[2] <= Len(futures[p[1]].chunks)
                          /\ futures[p[1]].chunks[p[2]].st = "running"}) < fields_threads
    /\ futures' = [futures EXCEPT ![f].chunks[c].st =
            IF Len(futures[f].chunks[c].chunk) = 0 THEN "done" ELSE "running"]
    /\ UNCHANGED <<T, fields_threads, fields_df, mainpc, df_list, result>>

\* A worker of the field's inner executor (max_workers = num_chunks) takes the oldest
\* queued chunk task off the work queue: process_chunk, line 23.
StartChunk(f, c) ==
    /\ f \in 1..Len(futures)
    /\ c \in 1..Len(futures[f].chunks)
    /\ futures[f].chunks[c].st = "queued"
    /\ \A o \in 1..(c - 1) : futures[f].chunks[o].st # "queued"
    /\ Cardinality(RunningChunks(futures[f])) < futures[f].pool
    /\ futures' = [futures EXCEPT ![f].chunks[c].st =
            IF Len(futures[f].chunks[c].chunk) = 0 THEN "done" ELSE "running"]
    /\ UNCHANGED <<T, fields_threads, fields_df, mainpc, df_list, result>>

\* Faulty variant: the failing date is skipped and the loop goes on.
OnFetchFailureSkip(ch) == [ch EXCEPT !.i = @ + 1,
                                     !.st = IF ch.i + 1 = Len(ch.chunk) THEN "done" ELSE "running"]
\* What process_chunk does when the fetch or an index computation of the date at
\* position i + 1 raises: nothing catches it, the task ends with the exception.
OnFetchFailure(ch) == [ch EXCEPT !.st = "failed"]

\* Faulty variant: the row replaces the rows gathered so far instead of joining them.
OnFetchSuccessReplace(ch, row) ==
    [ch EXCEPT !.i = @ + 1, !.acquisitions = <<row>>,
               !.st = IF ch.i + 1 = Len(ch.chunk) THEN "done" ELSE "running"]

\* One iteration of the loop of process_chunk (lines 24-124) for the next date of
\* the chunk: the band means are fetched, the indices computed and the row
\* appended; after the last date the task returns its rows (line 126).
OnFetchSuccess(ch, row) ==
    [ch EXCEPT !.i = @ + 1, !.acquisitions = Append(@, row),
               !.st = IF ch.i + 1 = Len(ch.chunk) THEN "done" ELSE "running"]

FetchDate(f, c, ok) ==
    /\ f \in 1..Len(futures)
    /\ c \in 1..Len(futures[f].chunks)
    /\ futures[f].chunks[c].st = "running"
    /\ LET ch == futures[f].chunks[c]
           called == [ch EXCEPT !.calls[ch.i + 1] = @ + 1,
                                !.failedAt = IF ok THEN @ ELSE ch.i + 1]
       IN  futures' = [futures EXCEPT ![f].chunks[c] =
               IF ok THEN OnFetchSuccess(called, Row(futures[f].arg, ch.chunk[ch.i + 1]))
                     ELSE OnFetchFailure(called)]
    /\ UNCHANGED <<T, fields_threads, fields_df, mainpc, df_list, result>>

\* Faulty variant: the exception of a failed task is swallowed.
FutureResultSwallow(task) == [raised |-> FALSE, rows |-> task.acquisitions]
\* future.result() of a finished task: its rows, or the exception it ended with.
FutureResult(task) ==
    IF task.st = "failed"
    THEN [raised |-> TRUE, rows |-> <<>>]
    ELSE [raised |-> FALSE, rows |-> task.acquisitions]

\* parallelize_features_read, lines 164-167: as_completed hands over a finished chunk
\* task; its rows extend the field's list, or its exception leaves the loop and
\* enters the exit of the with block.  After the last chunk the rows are returned.
CollectChunk(f, c) ==
    /\ f \in 1..Len(futures)
    /\ c \in 1..Len(futures[f].chunks)
    /\ futures[f].st = "waiting"
    /\ ChunkFinished(futures[f].chunks[c])
    /\ ~futures[f].chunks[c].taken
    /\ LET r == FutureResult(futures[f].chunks[c])
           last == \A o \in 1..Len(futures[f].chunks) :
                        o # c => futures[f].chunks[o].taken
       IN  futures' = [futures EXCEPT ![f] =
               IF r.raised
               THEN [@ EXCEPT !.chunks[c].taken = TRUE, !.st = "aborting",
                              !.err = "UpstreamFailure"]
               ELSE [@ EXCEPT !.chunks[c].taken = TRUE,
                              !.acquisitions = @ \o r.rows,
                              !.st = IF last THEN "done" ELSE "waiting"]]
    /\ UNCHANGED <<T, fields_threads, fields_df, mainpc, df_list, result>>

\* The exit of the with block of line 158 while an exception propagates:
\* shutdown(wait=True) returns once every chunk task has run; the field task fails.
FieldAbortExit(f) ==
    /\ f \in 1..Len(futures)
    /\ futures[f].st = "aborting"
    /\ \A c \in 1..Len(futures[f].chunks) : ChunkFinished(futures[f].chunks[c])
    /\ futures' = [futures EXCEPT ![f].st = "failed"]
    /\ UNCHANGED <<T, fields_threads, fields_df, mainpc, df_list, result>>

\* Faulty variant: the rows of a field task are taken while it is still running.
CollectFieldEarly(f) ==
    /\ mainpc = "collecting"
    /\ f \in 1..Len(futures)
    /\ futures[f].st # "queued"
    /\ ~futures[f].taken
    /\ LET r == FutureResult(futures[f])
       IN  /\ futures' = [futures EXCEPT ![f].taken = TRUE]
           /\ df_list' = IF r.raised THEN df_list ELSE df_list \o r.rows
           /\ mainpc' = IF r.raised THEN "aborting" ELSE "collecting"
    /\ UNCHANGED <<T, fields_threads, fields_df, result>>

\* get_features, lines 254-255: as_completed hands over a finished field task.
CollectField(f) ==
    /\ mainpc = "collecting"
    /\ f \in 1..Len(futures)
    /\ Finished(futures[f])
    /\ ~futures[f].taken
    /\ LET r == FutureResult(futures[f])
       IN  /\ futures' = [futures EXCEPT ![f].taken = TRUE]
           /\ df_list' = IF r.raised THEN df_list ELSE df_list \o r.rows
           /\ mainpc' = IF r.raised THEN "aborting" ELSE "collecting"
    /\ UNCHANGED <<T, fields_threads, fields_df, result>>

\* Faulty variant: the error leaves get_features without waiting for the field tasks.
MainAbortExitNoWait ==
    /\ mainpc = "aborting"
    /\ mainpc' = "error"
    /\ UNCHANGED <<T, fields_threads, fields_df, futures, df_list, result>>
\* The exit of the with block of line 244 while an exception propagates:
\* shutdown(wait=True) returns once every field task has run; get_features raises.
MainAbortExit ==
    /\ mainpc = "aborting"
    /\ \A f \in 1..Len(futures) : Finished(futures[f])
    /\ mainpc' = "error"
    /\ UNCHANGED <<T, fields_threads, fields_df, futures, df_list, result>>

\* Faulty variant: the rows are ordered by date alone.
RowLeqByDate(a, b) == a.date <= b.date
\* (name, date) order of df.sort_values([columns[0], columns[1]], ascending=[True, True]).
RowLeq(a, b) == a.name < b.name \/ (a.name = b.name /\ a.date <= b.date)

RECURSIVE InsertRow(_, _)
InsertRow(sorted, row) ==
    IF sorted = <<>> THEN <<row>>
    ELSE IF RowLeq(Head(sorted), row)
         THEN <<Head(sorted)>> \o InsertRow(Tail(sorted), row)
         ELSE <<row>> \o sorted

RECURSIVE SortValues(_)
SortValues(rows) ==
    IF rows = <<>> THEN <<>>
    ELSE InsertRow(SortValues(SubSeq(rows, 1, Len(rows) - 1)), rows[Len(rows)])

\* Faulty variant: an empty row list is returned as an empty table.
ReturnEmptyTable ==
    /\ mainpc = "collecting"
    /\ \A f \in 1..Len(futures) : futures[f].taken
    /\ mainpc' = "returned"
    /\ result' = SortValues(df_list)
    /\ UNCHANGED <<T, fields_threads, fields_df, futures, df_list>>
\* get_features, lines 257-261, once the loop has consumed every future: the
\* DataFrame is built and sorted; df.columns[0] of an empty DataFrame raises IndexError.
Return ==
    /\ mainpc = "collecting"
    /\ \A f \in 1..Len(futures) : futures[f].taken
    /\ IF df_list = <<>>
       THEN mainpc' = "error" /\ result' = result
       ELSE mainpc' = "returned" /\ result' = SortValues(df_list)
    /\ UNCHANGED <<T, fields_threads, fields_df, futures, df_list>>

\* The whole job.  Every collaborator call but the date listing may fail here; a
\* failing date listing (ListFail) is part of the single-field specification.
Next ==
    \/ Submit
    \/ \E f \in 1..MaxFields : StartField(f)
    \/ \E f \in 1..MaxFields, n \in 0..MaxDates : ListReturn(f, n, MaxDates)
    \/ \E f \in 1..MaxFields, c \in 1..MaxDates : StartChunk(f, c)
    \/ \E f \in 1..MaxFields, c \in 1..MaxDates, ok \in BOOLEAN : FetchDate(f, c, ok)
    \/ \E f \in 1..MaxFields, c \in 1..MaxDates : CollectChunk(f, c)
    \/ \E f \in 1..MaxFields : FieldAbortExit(f)
    \/ \E f \in 1..MaxFields : CollectField(f)
    \/ MainAbortExit
    \/ Return

Spec == Init /\ [][Next]_vars

\* --------------------------------------------------- single-field specification
\* get_features for one field handed over as a Series, with more dates and
\* workers than the whole-job specification affords.
InitField ==
    /\ T \in 1..MaxTF
    /\ fields_threads \in 1..MaxTF
    /\ fields_df = [kind |-> "series", rows |-> <<[name |-> 1]>>]
    /\ mainpc = "start"
    /\ futures = <<>>
    /\ df_list = <<>>
    /\ result = <<>>

NextField ==
    \/ Submit
    \/ StartField(1)
    \/ ListFail(1)
    \/ \E n \in 0..MaxDF : ListReturn(1, n, MaxDF)
    \/ \E c \in 1..MaxDF : StartChunk(1, c)
    \/ \E c \in 1..MaxDF, ok \in BOOLEAN : FetchDate(1, c, ok)
    \/ \E c \in 1..MaxDF : CollectChunk(1, c)
    \/ FieldAbortExit(1)
    \/ CollectField(1)
    \/ MainAbortExit
    \/ Return

SpecField == InitField /\ [][NextField]_vars

\* ------------------------------------------------- partition-only specification
\* One field handed over as a Series; the run stops once parallelize_features_read
\* has partitioned the reported dates and submitted the chunk tasks.
InitChunks ==
    /\ T \in 1..MaxTP
    /\ fields_threads \in 1..MaxTP
    /\ fields_df = [kind |-> "series", rows |-> <<[name |-> 1]>>]
    /\ mainpc = "start"
    /\ futures = <<>>
    /\ df_list = <<>>
    /\ result = <<>>

NextChunks ==
    \/ Submit
    \/ StartField(1)
    \/ \E n \in 0..MaxN : ListReturn(1, n, MaxN)

SpecChunks == InitChunks /\ [][NextChunks]_vars

\* ------------------------------------------------------ two-pool specification
\* The whole job for a DataFrame of three fields (two of them sharing a name) at
\* larger budgets, with collaborators that answer every call: several field
\* tasks at once, each with its own inner executor.
InitPools ==
    /\ T \in 1..MaxTO
    /\ fields_threads \in 1..MaxTO
    /\ fields_df = [kind |-> "frame", rows |-> <<[name |-> 2], [name |-> 1], [name |-> 1]>>]
    /\ mainpc = "start"
    /\ futures = <<>>
    /\ df_list = <<>>
    /\ result = <<>>

NextPools ==
    \/ Submit
    \/ \E f \in 1..Len(fields_df.rows) : StartField(f)
    \/ \E f \in 1..Len(fields_df.rows), n \in 0..MaxDP : ListReturn(f, n, MaxDO)
    \/ \E f \in 1..Len(fields_df.rows), c \in 1..MaxDP : StartChunk(f, c)
    \/ \E f \in 1..Len(fields_df.rows), c \in 1..MaxDP : FetchDate(f, c, TRUE)
    \/ \E f \in 1..Len(fields_df.rows), c \in 1..MaxDP : CollectChunk(f, c)
    \/ \E f \in 1..Len(fields_df.rows) : CollectField(f)
    \/ MainAbortExit
    \/ Return

SpecPools == InitPools /\ [][NextPools]_vars

\* ------------------------------------------------- fair-scheduling specification
\* The whole job at smaller sizes, with the scheduling the threads get: a thread
\* that can take a step is scheduled in the end, and a pending collaborator call
\* returns or raises.
FieldsDfsFair ==
    {[kind |-> "series", rows |-> <<[name |-> 1]>>]}
    \cup {[kind |-> "frame", rows |-> [r \in 1..m |-> [name |-> NameOfRow(r, m)]]] :
            m \in 0..MaxFQ}

InitFair ==
    /\ T \in 1..MaxTQ
    /\ fields_threads \in 1..MaxTQ
    /\ fields_df \in FieldsDfsFair
    /\ mainpc = "start"
    /\ futures = <<>>
    /\ df_list = <<>>
    /\ result = <<>>

NextFair ==
    \/ Submit
    \/ \E f \in 1..MaxFQ : StartField(f)
    \/ \E f \in 1..MaxFQ : ListFail(f)
    \/ \E f \in 1..MaxFQ, n \in 0..MaxDQ : ListReturn(f, n, MaxDQ)
    \/ \E f \in 1..MaxFQ, c \in 1..MaxDQ : StartChunk(f, c)
    \/ \E f \in 1..MaxFQ, c \in 1..MaxDQ, ok \in BOOLEAN : FetchDate(f, c, ok)
    \/ \E f \in 1..MaxFQ, c \in 1..MaxDQ : CollectChunk(f, c)
    \/ \E f \in 1..MaxFQ : FieldAbortExit(f)
    \/ \E f \in 1..MaxFQ : CollectField(f)
    \/ MainAbortExit
    \/ Return

\* The steps of one thread each: the get_features thread, the worker running field
\* task f, the worker running chunk task c of field f.
MainStep == Submit \/ (\E f \in 1..MaxFQ : CollectField(f)) \/ MainAbortExit \/ Return

FieldStep(f) ==
    \/ StartField(f)
    \/ ListFail(f)
    \/ \E n \in 0..MaxDQ : ListReturn(f, n, MaxDQ)
    \/ \E c \in 1..MaxDQ : CollectChunk(f, c)
    \/ FieldAbortExit(f)

ChunkStep(f, c) == StartChunk(f, c) \/ \E ok \in BOOLEAN : FetchDate(f, c, ok)

Fairness ==
    /\ WF_vars(MainStep)
    /\ \A f \in 1..MaxFQ : WF_vars(FieldStep(f))
    /\ \A f \in 1..MaxFQ, c \in 1..MaxDQ : WF_vars(ChunkStep(f, c))

SpecFair == InitFair /\ [][NextFair]_vars /\ Fairness

\* ------------------------------------------------------ termination specification
\* Fair scheduling over both kinds of input: the small jobs of the fair-scheduling
\* specification, and one lone field with enough dates and budget for more chunk
\* tasks than inner workers.
InitTerm ==
    \/ InitFair
    \/ /\ T \in 1..MaxTT
       /\ fields_threads \in 1..MaxTT
       /\ fields_df = [kind |-> "series", rows |-> <<[name |-> 1]>>]
       /\ mainpc = "start"
       /\ futures = <<>>
       /\ df_list = <<>>
       /\ result = <<>>

\* Dates the Image Source reports over all fields of the input.
DateCap == IF fields_df.kind = "series" THEN MaxDT ELSE MaxDQ

NextTerm ==
    \/ Submit
    \/ \E f \in 1..MaxFQ : StartField(f)
    \/ \E f \in 1..MaxFQ : ListFail(f)
    \/ \E f \in 1..MaxFQ, n \in 0..MaxDT : ListReturn(f, n, DateCap)
    \/ \E f \in 1..MaxFQ, c \in 1..MaxDT : StartChunk(f, c)
    \/ \E f \in 1..MaxFQ, c \in 1..MaxDT, ok \in BOOLEAN : FetchDate(f, c, ok)
    \/ \E f \in 1..MaxFQ, c \in 1..MaxDT : CollectChunk(f, c)
    \/ \E f \in 1..MaxFQ : FieldAbortExit(f)
    \/ \E f \in 1..MaxFQ : CollectField(f)
    \/ MainAbortExit
    \/ Return

\* The steps of the worker running field task f.
FieldStepTerm(f) ==
    \/ StartField(f)
    \/ ListFail(f)
    \/ \E n \in 0..MaxDT : ListReturn(f, n, DateCap)
    \/ \E c \in 1..MaxDT : CollectChunk(f, c)
    \/ FieldAbortExit(f)

FairnessTerm ==
    /\ WF_vars(MainStep)
    /\ \A f \in 1..MaxFQ : WF_vars(FieldStepTerm(f))
    /\ \A f \in 1..MaxFQ, c \in 1..MaxDT : WF_vars(ChunkStep(f, c))

SpecTerm == InitTerm /\ [][NextTerm]_vars /\ FairnessTerm

\* ------------------------------------------------------------------ claims
SeqRange(s) == {s[i] : i \in 1..Len(s)}

RECURSIVE Flatten(_)
Flatten(ss) == IF ss = <<>> THEN <<>> ELSE Head(ss) \o Flatten(Tail(ss))

NumFields == Len(fields_df.rows)
Terminated == mainpc \in {"returned", "error"}
ValidBudget == 1 <= fields_threads /\ fields_threads < T

\* No Image Source or Index Evaluator call has failed.
NoCollaboratorFailure ==
    \A f \in 1..Len(futures) :
        /\ futures[f].err # "UpstreamFailure"
        /\ \A c \in 1..Len(futures[f].chunks) : futures[f].chunks[c].failedAt = 0

\* The (field, date) pairs the Image Source reported.
ReportedPairs ==
    UNION {{<<futures[f].arg, d>> : d \in SeqRange(futures[f].date_range)} :
            f \in {g \in 1..Len(futures) : futures[g].listed}}

RowsOf(table, pair) ==
    {i \in 1..Len(table) : table[i].src = pair[1] /\ table[i].date = pair[2]}

\* C1: for non-empty fields, a valid budget and no collaborator failure,
\* get_features returns a table whose rows are in bijection with the reported
\* (field, date) pairs, for every number of reported dates per field.  (Stated
\* for the calls that hand each field task one field; C3 is about the others.)
C1_Bijection ==
    (/\ Terminated /\ NumFields >= 1 /\ ValidBudget /\ NoCollaboratorFailure
     /\ \A f \in 1..Len(futures) : futures[f].arg # 0)
    => /\ mainpc = "returned"
       /\ \A f \in 1..Len(futures) : futures[f].listed
       /\ \A pair \in ReportedPairs : Cardinality(RowsOf(result, pair)) = 1
       /\ \A i \in 1..Len(result) : <<result[i].src, result[i].date>> \in ReportedPairs

\* C2: a field for which the Image Source reports zero dates completes without
\* error and contributes zero rows.
C2_ZeroDatesNoError ==
    ValidBudget =>
        \A f \in 1..Len(futures) :
            (futures[f].listed /\ futures[f].date_range = <<>>)
            => (futures[f].st # "failed" /\ futures[f].err = "")

\* C3: m >= 1 fields give exactly m field tasks, each for one distinct field.
C3_OneTaskPerField ==
    (mainpc # "start" /\ NumFields >= 1)
    => /\ Len(futures) = NumFields
       /\ \A r \in 1..NumFields :
            Cardinality({f \in 1..Len(futures) : futures[f].arg = r}) = 1

\* C4: a returned table is sorted ascending by (field identifier, date).
LexLeq(a, b) == a.name < b.name \/ (a.name = b.name /\ a.date <= b.date)
C4_Sorted ==
    mainpc = "returned"
    => \A i \in 1..(Len(result) - 1) : LexLeq(result[i], result[i + 1])

C4_Witness ==
    /\ mainpc = "returned"
    /\ Len(result) >= 2
    /\ result # df_list
    /\ \E i \in 1..(Len(df_list) - 1) : ~LexLeq(df_list[i], df_list[i + 1])

\* The partition of a field: n dates, inner worker count k, the chunks made.
PartN(fut) == Len(fut.date_range)
PartK(fut) == T - fields_threads
ChunkSeqs(fut) == [c \in 1..Len(fut.chunks) |-> fut.chunks[c].chunk]
Partitioned(fut) == fut.listed /\ PartN(fut) >= PartK(fut) /\ PartK(fut) >= 1

\* C5: for n >= k >= 1 the sizes of any two chunks differ by at most 1.
C5_SizesDifferByAtMostOne ==
    \A f \in 1..Len(futures) :
        Partitioned(futures[f])
        => \A a, b \in 1..Len(futures[f].chunks) :
              Len(futures[f].chunks[a].chunk) - Len(futures[f].chunks[b].chunk) <= 1

\* C6: for n >= k >= 1 the chunks are contiguous and non-empty, their sizes sum
\* to n, no date is in two chunks and their concatenation is the date sequence.
RECURSIVE SumSizes(_)
SumSizes(ss) == IF ss = <<>> THEN 0 ELSE Len(Head(ss)) + SumSizes(Tail(ss))

C6_ContiguousPartition ==
    \A f \in 1..Len(futures) :
        Partitioned(futures[f])
        => LET cs == ChunkSeqs(futures[f])
           IN  /\ futures[f].err = ""
               /\ Len(cs) >= 1
               /\ \A c \in 1..Len(cs) : Len(cs[c]) >= 1
               /\ SumSizes(cs) = PartN(futures[f])
               /\ \A a, b \in 1..Len(cs) :
                     a # b => SeqRange(cs[a]) \cap SeqRange(cs[b]) = {}
               /\ Flatten(cs) = futures[f].date_range

C6_Witness ==
    \E f \in 1..Len(futures) :
        /\ Partitioned(futures[f])
        /\ PartN(futures[f]) = 7
        /\ PartK(futures[f]) = 2
        /\ Len(futures[f].chunks) = 3

\* C7: with non-empty fields and fields_threads >= T, get_features never returns
\* a table: every field task fails before any chunk task exists and the call
\* ends in an error.
C7_InvalidBudgetFails ==
    (NumFields >= 1 /\ fields_threads >= T)
    => /\ mainpc # "returned"
       /\ \A f \in 1..Len(futures) :
            /\ futures[f].st \notin {"waiting", "done"}
            /\ futures[f].chunks = <<>>
       /\ (mainpc = "collecting" /\ \A f \in 1..Len(futures) : Finished(futures[f]))
            => \E f \in 1..Len(futures) : futures[f].st = "failed"

C7_Witness ==
    /\ mainpc = "error"
    /\ fields_threads > T
    /\ \E f \in 1..Len(futures) :
          /\ futures[f].listed
          /\ Len(futures[f].date_range) >= 2
          /\ futures[f].err = "ValueError"

\* C8: if any field task fails, get_features does not return a table.
C8_NoPartialSuccess ==
    (\E f \in 1..Len(futures) : futures[f].st \in {"failed", "aborting"})
    => mainpc # "returned"

C8_Witness ==
    /\ mainpc = "error"
    /\ \E f, g \in 1..Len(futures) :
          /\ futures[f].st = "done"
          /\ futures[f].acquisitions # <<>>
          /\ futures[g].st = "failed"

\* C9: a failed fetch at position i of a chunk stops the chunk task: no later date
\* of the chunk is fetched, the failed date is fetched once only, none of the
\* chunk's rows reaches the field's rows and the field task does not succeed.
C9_ChunkAbortsOnFailure ==
    \A f \in 1..Len(futures) : \A c \in 1..Len(futures[f].chunks) :
        LET ch == futures[f].chunks[c]
        IN  ch.failedAt # 0
            => /\ ch.st = "failed"
               /\ ch.calls[ch.failedAt] = 1
               /\ \A p \in 1..Len(ch.chunk) : p > ch.failedAt => ch.calls[p] = 0
               /\ \A p \in 1..Len(ch.chunk) : p < ch.failedAt => ch.calls[p] = 1
               /\ \A j \in 1..Len(futures[f].acquisitions) :
                     futures[f].acquisitions[j].date \notin SeqRange(ch.chunk)
               /\ \A j \in 1..Len(df_list) :
                     ~(df_list[j].src = futures[f].arg
                       /\ df_list[j].date \in SeqRange(ch.chunk))
               /\ futures[f].st \in {"waiting", "aborting", "failed"}
               /\ ch.taken => futures[f].st \in {"aborting", "failed"}

C9_Witness ==
    \E f \in 1..Len(futures) : \E c \in 1..Len(futures[f].chunks) :
        LET ch == futures[f].chunks[c]
        IN  /\ ch.failedAt = 2
            /\ Len(ch.chunk) = 3
            /\ Len(ch.acquisitions) = 1
            /\ futures[f].st = "failed"
            /\ futures[f].acquisitions = <<>>

\* C10: every field task, in the single-field branch and in the loop, uses an
\* inner pool of T - fields_threads workers (T - 1 only if fields_threads = 1).
C10_InnerPoolSize ==
    \A f \in 1..Len(futures) :
        /\ futures[f].occupied = fields_threads
        /\ futures[f].pool # 0
            => /\ futures[f].pool = T - fields_threads
               /\ futures[f].pool = T - 1 => fields_threads = 1

C10_Witness ==
    /\ LenFieldsDf(fields_df) = 2
    /\ fields_threads = 2
    /\ \E f \in 1..Len(futures) :
          /\ futures[f].pool = T - 2
          /\ futures[f].pool # 0
          /\ futures[f].st = "done"

\* The table of the run in which every task completes in submission order: the
\* rows of the reported (field, date) pairs in field order, then sorted.
ReferenceTable ==
    SortValues(Flatten([f \in 1..Len(futures) |->
        [j \in 1..Len(futures[f].date_range) |->
            Row(futures[f].arg, futures[f].date_range[j])]]))

\* C11: for fixed arguments and fixed answers of the Image Source, the returned
\* table (rows and their order) is the same whatever the completion order of the
\* field and chunk tasks, also when fields share an identifier: every returned
\* table equals the one of the run that completes in submission order.
C11_SameTableForEveryOrder ==
    mainpc = "returned" => result = ReferenceTable

\* C12: get_features on an empty set of fields ends in an error and returns no
\* table; no field task is submitted or started and no Image Source call is made.
C12_EmptyFieldsFail ==
    (fields_df.kind = "frame" /\ NumFields = 0)
    => /\ mainpc \in {"start", "collecting", "error"}
       /\ futures = <<>>
       /\ df_list = <<>>
       /\ result = <<>>

C12_Witness ==
    /\ fields_df.kind = "frame"
    /\ NumFields = 0
    /\ mainpc = "error"

\* C13: for n >= k >= 1 exactly k chunk tasks are launched, the first k - 1 of
\* size n // k and the last one of size n // k plus the remainder.
C13_ExactlyKChunks ==
    \A f \in 1..Len(futures) :
        Partitioned(futures[f])
        => LET n == PartN(futures[f])
               k == PartK(futures[f])
               cs == ChunkSeqs(futures[f])
           IN  /\ Len(cs) = k
               /\ \A c \in 1..(Len(cs) - 1) : Len(cs[c]) = n \div k
               /\ Len(cs[Len(cs)]) = (n \div k) + (n % k)

\* C14: for a field with n dates and inner worker count k, n >= k >= 1, and no
\* collaborator failure, parallelize_features_read does not fail, and when it has
\* returned every chunk task has completed, each date of every chunk was fetched
\* exactly once, and the returned rows are n rows of the field, one per date.
C14_OneRowPerDate ==
    \A f \in 1..Len(futures) :
        (Partitioned(futures[f]) /\ NoCollaboratorFailure)
        => /\ futures[f].st \in {"waiting", "done"}
           /\ futures[f].st = "done"
              => /\ \A c \in 1..Len(futures[f].chunks) :
                       /\ futures[f].chunks[c].st = "done"
                       /\ futures[f].chunks[c].taken
                       /\ \A p \in 1..Len(futures[f].chunks[c].chunk) :
                             futures[f].chunks[c].calls[p] = 1
                 /\ Len(futures[f].acquisitions) = PartN(futures[f])
                 /\ \A d \in SeqRange(futures[f].date_range) :
                       Cardinality({j \in 1..Len(futures[f].acquisitions) :
                           futures[f].acquisitions[j] = Row(futures[f].arg, d)}) = 1

C14_Witness ==
    \E f \in 1..Len(futures) :
        /\ Partitioned(futures[f])
        /\ NoCollaboratorFailure
        /\ futures[f].st = "done"
        /\ PartN(futures[f]) = 5
        /\ PartK(futures[f]) = 2
        /\ \E j \in 1..(Len(futures[f].acquisitions) - 1) :
              futures[f].acquisitions[j].date > futures[f].acquisitions[j + 1].date

\* C15: after a field task has failed the other field tasks, running or queued,
\* are still run to their end: get_features reports the error only when every
\* submitted field task has finished, and every finished task was started by a
\* worker (it failed on field[0], or it requested its date listing).
C15_OthersRunToCompletion ==
    (mainpc = "error" /\ NumFields >= 1)
    => \A f \in 1..Len(futures) :
          /\ Finished(futures[f])
          /\ futures[f].err = "KeyError" \/ futures[f].listCalls = 1

C15_Witness ==
    /\ mainpc = "error"
    /\ Len(futures) = 3
    /\ futures[1].st = "failed"
    /\ futures[1].taken
    /\ futures[3].st = "done"
    /\ futures[3].acquisitions # <<>>
    /\ ~futures[3].taken

\* C16: at most fields_threads field tasks are executing at once, and under fair
\* scheduling every field task waiting in the queue is eventually started.
C16_BoundedAndEventuallyStarted ==
    /\ [](Cardinality(RunningFields) <= fields_threads)
    /\ \A f \in 1..MaxFQ :
          (f <= Len(futures) /\ futures[f].st = "queued")
          ~> (f <= Len(futures) /\ futures[f].st # "queued")

C16_Witness ==
    /\ Len(futures) = 3
    /\ fields_threads = 2
    /\ Finished(futures[1])
    /\ Executing(futures[2])
    /\ Executing(futures[3])

\* Chunk tasks executing at once over all field tasks.
RECURSIVE SumRunning(_)
SumRunning(fs) ==
    IF fs = <<>> THEN 0 ELSE Cardinality(RunningChunks(Head(fs))) + SumRunning(Tail(fs))
TotalRunning == SumRunning(futures)

\* Workers left to the date level by the budget (none when fields_threads >= T).
InnerWorkers == IF T - fields_threads >= 1 THEN T - fields_threads ELSE 0

\* C17: at most fields_threads x (T - fields_threads) chunk tasks execute at once
\* over the whole job, and at most T - fields_threads within one field task, also
\* when the field has more chunk tasks than that.
C17_ChunkConcurrencyBound ==
    /\ TotalRunning <= fields_threads * InnerWorkers
    /\ \A f \in 1..Len(futures) :
          Cardinality(RunningChunks(futures[f])) <= InnerWorkers

C17_Witness ==
    \E f \in 1..Len(futures) :
        /\ InnerWorkers = 2
        /\ Len(futures[f].chunks) = 3
        /\ Cardinality(RunningChunks(futures[f])) = 2
        /\ \E c \in 1..3 : futures[f].chunks[c].st = "queued"
        /\ TotalRunning = fields_threads * InnerWorkers

\* C18: the budget T does not bound the concurrency: a state with more than T
\* chunk tasks executing at once is reachable; it takes more than one active field
\* task and stays within fields_threads x (T - fields_threads).
C18_OversubscriptionNeedsTwoFields ==
    TotalRunning > T
    => /\ Cardinality(RunningFields) >= 2
       /\ TotalRunning <= fields_threads * (T - fields_threads)

C18_Witness ==
    /\ Len(futures) = 3
    /\ Cardinality(RunningFields) >= 2
    /\ TotalRunning > T

\* C19: a field task requests its date listing once, itself, and the listing has
\* returned before the field has any chunk task: no chunk task exists and no
\* fetch has been made for a field whose listing has not returned.
C19_ListingBeforeChunks ==
    \A f \in 1..Len(futures) :
        /\ futures[f].listCalls <= 1
        /\ (futures[f].listed \/ futures[f].st \in {"listing", "waiting", "aborting", "done"})
              => futures[f].listCalls = 1
        /\ futures[f].st \in {"queued", "listing"}
              => (~futures[f].listed /\ futures[f].chunks = <<>>)
        /\ futures[f].chunks # <<>> => futures[f].listed
        /\ \A c \in 1..Len(futures[f].chunks) :
              \A p \in 1..Len(futures[f].chunks[c].chunk) :
                  futures[f].chunks[c].calls[p] > 0 => futures[f].listed

C19_Witness ==
    \E f, g \in 1..Len(futures) :
        /\ futures[f].listed
        /\ futures[f].listCalls = 1
        /\ \E c \in 1..Len(futures[f].chunks) : futures[f].chunks[c].calls[1] = 1
        /\ futures[g].st = "listing"
        /\ futures[g].chunks = <<>>

\* Rows of field task f in a row list, and rows of a chunk in a field's row list.
RowsFrom(rows, f) == {j \in 1..Len(rows) : rows[j].src = futures[f].arg}
RowsOfChunk(rows, ch) == {j \in 1..Len(rows) : rows[j].date \in SeqRange(ch.chunk)}

\* The row lists hold whole results of completed tasks only.
OnlyCompletedRows ==
    /\ \A f \in 1..Len(futures) :
          Cardinality(RowsFrom(df_list, f)) =
              IF futures[f].st = "done" /\ futures[f].taken
              THEN Len(futures[f].date_range) ELSE 0
    /\ \A j \in 1..Len(df_list) : \E f \in 1..Len(futures) : df_list[j].src = futures[f].arg
    /\ \A f \in 1..Len(futures) : \A c \in 1..Len(futures[f].chunks) :
          LET ch == futures[f].chunks[c]
          IN  Cardinality(RowsOfChunk(futures[f].acquisitions, ch)) =
                  IF ch.st = "done" /\ ch.taken THEN Len(ch.chunk) ELSE 0

\* A row list changes only by a step of the thread that owns it.
AppendsByOwner ==
    /\ df_list' # df_list => \E f \in 1..Len(futures) : CollectField(f)
    /\ \A f \in 1..Len(futures) :
          (Len(futures') = Len(futures) /\ futures'[f].acquisitions # futures[f].acquisitions)
          => \E c \in 1..Len(futures[f].chunks) : CollectChunk(f, c)

\* C20: df_list holds only rows of completed field tasks and each field's list
\* only rows of its completed chunk tasks, whole results and never partial ones;
\* the lists change only by the collecting step of the thread that owns them.
C20_OnlyCompletedResultsVisible ==
    /\ []OnlyCompletedRows
    /\ [][AppendsByOwner]_vars

C20_Witness ==
    /\ df_list # <<>>
    /\ \E g \in 1..Len(futures) :
          /\ futures[g].st = "waiting"
          /\ \E c \in 1..Len(futures[g].chunks) :
                /\ futures[g].chunks[c].st = "running"
                /\ futures[g].chunks[c].acquisitions # <<>>

\* C21: a field with fewer reported dates than inner workers, 0 <= n < T -
\* fields_threads, fails once its listing has returned (chunk size 0, ValueError
\* from range): it has no chunk task and no inner executor, no fetch was made
\* for it and it contributes no row.
C21_FewerDatesThanWorkersFails ==
    \A f \in 1..Len(futures) :
        (futures[f].listed /\ PartN(futures[f]) < T - fields_threads)
        => /\ futures[f].st = "failed"
           /\ futures[f].err = "ValueError"
           /\ futures[f].chunks = <<>>
           /\ futures[f].pool = 0
           /\ futures[f].acquisitions = <<>>
           /\ mainpc # "returned"

C21_Witness ==
    /\ mainpc = "error"
    /\ \E f \in 1..Len(futures) :
          /\ futures[f].listed
          /\ PartN(futures[f]) = 2
          /\ T - fields_threads = 3
          /\ futures[f].err = "ValueError"
          /\ futures[f].chunks = <<>>

\* C22: when every collaborator call returns or raises and the threads are
\* scheduled fairly, get_features terminates, with a table or with an error: no
\* state short of termination leaves every thread waiting (the outer pool and
\* the inner pools do not deadlock), whatever the fields, dates and pool sizes.
C22_AlwaysTerminates == <>Terminated

C22_Witness ==
    /\ mainpc = "returned"
    /\ fields_threads = 1
    /\ \E f \in 1..Len(futures) :
          /\ futures[f].pool = 2
          /\ Len(futures[f].chunks) = 3
====
